---- MODULE Spec2Model ----
(***************************************************************************)
(* TradingPro (app.py): symbol normalisation, timeframe resolution, the    *)
(* RSI / SMA / Bollinger indicator routines, and the Flask handlers that   *)
(* assemble quotes, charts and watchlist data from the market-data         *)
(* provider (yfinance).                                                    *)
(*                                                                         *)
(* Numbers.  A Python float is modelled exactly as a pair <<n, d>>:        *)
(*   d > 0  the rational n/d in lowest terms,                              *)
(*   d = 0  an IEEE special: <<0,0>> NaN, <<1,0>> +inf, <<-1,0>> -inf.     *)
(* A square root is kept symbolically (see Surd).                          *)
(* Strings that the code inspects character by character (ticker symbols)  *)
(* are sequences of one-character strings.                                 *)
(***************************************************************************)
EXTENDS Integers, Sequences, FiniteSets, TLC

VARIABLES hist, session, request, response, calls

vars == <<hist, session, request, response, calls>>

-----------------------------------------------------------------------------
(* Bounds of the model *)

\* most bars the provider holds for a symbol in the chart specification
MaxBars == 21
\* most bars whose close differs from the previous close, in the chart specification
MaxMoves == 1
\* most bars the provider holds in the API specification
MaxApiBars == 3
\* longest generated ticker string in the normaliser specification
MaxSymLen == 3
\* most symbols in a posted watchlist
MaxWatch == 2
\* most timeframe tokens resolved in a run of the resolver specification
MaxResolves == 2

-----------------------------------------------------------------------------
(* Float arithmetic *)

NaN == <<0, 0>>
PosInf == <<1, 0>>
NegInf == <<-1, 0>>

Abs(x) == IF x < 0 THEN -x ELSE x
Max(a, b) == IF a > b THEN a ELSE b
Min(a, b) == IF a < b THEN a ELSE b

RECURSIVE GCD(_, _)
GCD(a, b) == IF b = 0 THEN a ELSE GCD(b, a % b)

\* n/d with d # 0, in lowest terms with a positive denominator
Rat(n, d) ==
    LET s == IF d < 0 THEN -1 ELSE 1
        g == GCD(Abs(n), Abs(d))
    IN  <<(s * n) \div g, (s * d) \div g>>

\* float(x) of an integer-valued reading
Float(x) == <<x, 1>>

IsFinite(a) == a[2] # 0
IsNaN(a) == a = NaN
Sign(x) == IF x > 0 THEN 1 ELSE IF x < 0 THEN -1 ELSE 0

FNeg(a) == <<-a[1], a[2]>>

FAdd(a, b) ==
    IF IsFinite(a) /\ IsFinite(b)
    THEN IF a[2] = 1 /\ b[2] = 1 THEN <<a[1] + b[1], 1>>
         ELSE LET g == GCD(a[2], b[2])
              IN  Rat(a[1] * (b[2] \div g) + b[1] * (a[2] \div g), (a[2] \div g) * b[2])
    ELSE IF IsNaN(a) \/ IsNaN(b) THEN NaN
    ELSE IF IsFinite(a) THEN b
    ELSE IF IsFinite(b) THEN a
    ELSE IF a = b THEN a ELSE NaN

FSub(a, b) == FAdd(a, FNeg(b))

FMul(a, b) ==
    IF IsFinite(a) /\ IsFinite(b) THEN Rat(a[1] * b[1], a[2] * b[2])
    ELSE IF IsNaN(a) \/ IsNaN(b) THEN NaN
    ELSE LET s == Sign(a[1]) * Sign(b[1]) IN
         IF s = 0 THEN NaN ELSE <<s, 0>>

\* numpy float64 division: x/0 is nan or +-inf (a warning, no exception)
FDiv(a, b) ==
    IF IsFinite(a) /\ IsFinite(b)
    THEN IF b[1] = 0 THEN <<Sign(a[1]), 0>>
         ELSE Rat(a[1] * b[2], a[2] * b[1])
    ELSE IF IsNaN(a) \/ IsNaN(b) THEN NaN
    ELSE IF IsFinite(b) THEN <<Sign(a[1]) * (IF b[1] < 0 THEN -1 ELSE 1), 0>>
    ELSE IF IsFinite(a) THEN <<0, 1>>
    ELSE NaN

\* a < b, a <= b and a == b by IEEE rules (every comparison with NaN is false)
FLt(a, b) ==
    IF IsNaN(a) \/ IsNaN(b) THEN FALSE
    ELSE IF IsFinite(a) /\ IsFinite(b) THEN a[1] * b[2] < b[1] * a[2]
    ELSE IF IsFinite(a) THEN b = PosInf
    ELSE IF IsFinite(b) THEN a = NegInf
    ELSE a = NegInf /\ b = PosInf

FEq(a, b) == ~IsNaN(a) /\ ~IsNaN(b) /\ a = b

FLe(a, b) == FLt(a, b) \/ FEq(a, b)

\* x ** 0.5, kept exact: the non-negative root of rad
Surd(rad) == [sqrt |-> rad]

\* a + m * s  for a symbolic root s
Band(a, m, s) == [base |-> a, mult |-> m, root |-> s]

\* the list with the elements f[1], ..., f[n], each computed once
List(f) == SubSeq(f, 1, Len(f))

\* Python slice s[a:b] of a list (0-based, half-open, clipped to the list)
Slice(s, a, b) ==
    LET lo == IF a < 0 THEN 0 ELSE a
        hi == IF b > Len(s) THEN Len(s) ELSE b
    IN  IF hi <= lo THEN <<>> ELSE SubSeq(s, lo + 1, hi)

\* sum(xs), left to right from 0
RECURSIVE FSumFrom(_, _, _)
FSumFrom(xs, k, acc) ==
    IF k > Len(xs) THEN acc ELSE FSumFrom(xs, k + 1, FAdd(acc, xs[k]))

FSum(xs) == FSumFrom(xs, 1, <<0, 1>>)

\* np.mean(xs)
FMean(xs) == FDiv(FSum(xs), Float(Len(xs)))

-----------------------------------------------------------------------------
(* IndicatorEngine *)

RSI_PERIOD == 14
RSI_MA_PERIOD == 9
BB_PERIOD == 20
BB_MULTIPLIER == 2
RSI_NEUTRAL == 50
RSI_MAX == 100
BB_WARMUP_OFFSET == 10

\* np.diff(prices)
Diff(prices) ==
    List([k \in 1..(Len(prices) - 1) |-> FSub(prices[k + 1], prices[k])])

\* rsi_of with the "1 +" of the formula left out
rsi_of_unshifted(avg_gain, avg_loss) ==
    IF FEq(avg_loss, <<0, 1>>) THEN Float(RSI_MAX)
    ELSE LET rs == FDiv(avg_gain, avg_loss)
         IN  FSub(Float(100), FDiv(Float(100), rs))

\* rsi_of without the test for a zero average loss
rsi_of_unguarded(avg_gain, avg_loss) ==
    LET rs == FDiv(avg_gain, avg_loss)
    IN  FSub(Float(100), FDiv(Float(100), FAdd(Float(1), rs)))

\* the RSI of one window, from its average gain and average loss
rsi_of(avg_gain, avg_loss) ==
    IF FEq(avg_loss, <<0, 1>>) THEN Float(RSI_MAX)
    ELSE LET rs == FDiv(avg_gain, avg_loss)
         IN  FSub(Float(100), FDiv(Float(100), FAdd(Float(1), rs)))

calculate_rsi(prices, period) ==
    IF Len(prices) < period + 1
    THEN List([k \in 1..Len(prices) |-> Float(RSI_NEUTRAL)])
    ELSE
      LET deltas == Diff(prices)
          gains == List([k \in 1..Len(deltas) |->
                      IF FLt(<<0, 1>>, deltas[k]) THEN deltas[k] ELSE <<0, 1>>])
          losses == List([k \in 1..Len(deltas) |->
                      IF FLt(deltas[k], <<0, 1>>) THEN FNeg(deltas[k]) ELSE <<0, 1>>])
      IN  List([k \in 1..Len(prices) |->
             LET i == k - 1 IN
             IF i < period THEN Float(RSI_NEUTRAL)
             ELSE
               LET avg_gain == FMean(Slice(gains, Max(0, i - period), i))
                   avg_loss == FMean(Slice(losses, Max(0, i - period), i))
               IN  rsi_of(avg_gain, avg_loss)])

calculate_sma(values, period) ==
    List([k \in 1..Len(values) |->
       LET i == k - 1 IN
       IF i < period - 1 THEN values[k]
       ELSE FDiv(FSum(Slice(values, i - period + 1, i + 1)), Float(period))])

\* <<upper, lower>>
calculate_bollinger_bands(values, period, multiplier) ==
    LET sma == calculate_sma(values, period)
        \* one pass of the loop: the pair appended to upper and to lower
        bands == List([k \in 1..Len(values) |->
          LET i == k - 1 IN
          IF i < period - 1
          THEN << FAdd(values[k], Float(BB_WARMUP_OFFSET)),
                  FSub(values[k], Float(BB_WARMUP_OFFSET)) >>
          ELSE
            LET slice_values == Slice(values, i - period + 1, i + 1)
                mean == sma[k]
                sq == List([j \in 1..Len(slice_values) |->
                         LET dev == FSub(slice_values[j], mean) IN FMul(dev, dev)])
                variance == FDiv(FSum(sq), Float(period))
                std_dev == Surd(variance)
            IN  << Band(mean, multiplier, std_dev), Band(mean, -multiplier, std_dev) >>])
    IN  << List([k \in 1..Len(values) |-> bands[k][1]]),
           List([k \in 1..Len(values) |-> bands[k][2]]) >>

-----------------------------------------------------------------------------
(* SymbolNormalizer *)

LowerCase == <<"a", "b", "c", "d", "e", "f", "g", "h", "i", "j", "k", "l", "m", "n", "o", "p", "q", "r", "s", "t", "u", "v", "w", "x", "y", "z">>
UpperCase == <<"A", "B", "C", "D", "E", "F", "G", "H", "I", "J", "K", "L", "M", "N", "O", "P", "Q", "R", "S", "T", "U", "V", "W", "X", "Y", "Z">>

\* str.upper()
Upper(s) ==
    [k \in 1..Len(s) |->
       IF \E j \in 1..Len(LowerCase) : LowerCase[j] = s[k]
       THEN UpperCase[CHOOSE j \in 1..Len(LowerCase) : LowerCase[j] = s[k]]
       ELSE s[k]]

\* sub in s
Contains(s, sub) ==
    \E k \in 1..(Len(s) - Len(sub) + 1) : SubSeq(s, k, k + Len(sub) - 1) = sub

\* x in xs, for a list xs
InList(x, xs) == \E k \in 1..Len(xs) : xs[k] = x

POPULAR_US ==
    << <<"A", "A", "P", "L">>,
       <<"G", "O", "O", "G", "L">>,
       <<"M", "S", "F", "T">>,
       <<"T", "S", "L", "A">>,
       <<"A", "M", "Z", "N">>,
       <<"N", "V", "D", "A">>,
       <<"M", "E", "T", "A">>,
       <<"S", "P", "Y">>,
       <<"Q", "Q", "Q">>,
       <<"B", "T", "C", "-", "U", "S", "D">>,
       <<"E", "T", "H", "-", "U", "S", "D">> >>

POPULAR_INDIAN ==
    << <<"R", "E", "L", "I", "A", "N", "C", "E", ".", "N", "S">>,
       <<"T", "C", "S", ".", "N", "S">>,
       <<"H", "D", "F", "C", "B", "A", "N", "K", ".", "N", "S">>,
       <<"I", "N", "F", "Y", ".", "N", "S">>,
       <<"H", "I", "N", "D", "U", "N", "I", "L", "V", "R", ".", "N", "S">>,
       <<"I", "T", "C", ".", "N", "S">>,
       <<"S", "B", "I", "N", ".", "N", "S">>,
       <<"B", "H", "A", "R", "T", "I", "A", "R", "T", "L", ".", "N", "S">>,
       <<"K", "O", "T", "A", "K", "B", "A", "N", "K", ".", "N", "S">>,
       <<"L", "T", ".", "N", "S">> >>

popular_symbols == [US |-> POPULAR_US, INDIAN |-> POPULAR_INDIAN]

indian_exchanges == << <<".", "N", "S">>, <<".", "B", "O">> >>

common_us_symbols ==
    << <<"A", "A", "P", "L">>,
       <<"G", "O", "O", "G", "L">>,
       <<"M", "S", "F", "T">>,
       <<"T", "S", "L", "A">>,
       <<"A", "M", "Z", "N">>,
       <<"N", "V", "D", "A">>,
       <<"M", "E", "T", "A">>,
       <<"S", "P", "Y">> >>

MAX_BARE_SYMBOL_LEN == 10

\* format_symbol_for_yahoo appending the exchange code without its dot
format_symbol_undotted(symbol) ==
    IF \E e \in 1..Len(indian_exchanges) : Contains(symbol, indian_exchanges[e])
    THEN symbol
    ELSE IF InList(Upper(symbol), common_us_symbols)
    THEN symbol
    ELSE IF Len(symbol) <= MAX_BARE_SYMBOL_LEN /\ ~Contains(symbol, <<".">>)
    THEN symbol \o <<"N", "S">>
    ELSE symbol

format_symbol_for_yahoo(symbol) ==
    IF \E e \in 1..Len(indian_exchanges) : Contains(symbol, indian_exchanges[e])
    THEN symbol
    ELSE IF InList(Upper(symbol), common_us_symbols)
    THEN symbol
    ELSE IF Len(symbol) <= MAX_BARE_SYMBOL_LEN /\ ~Contains(symbol, <<".">>)
    THEN symbol \o <<".", "N", "S">>
    ELSE symbol

-----------------------------------------------------------------------------
(* TimeframeResolver *)

interval_map ==
    "1m" :> <<"1m", "1d">> @@
    "5m" :> <<"5m", "5d">> @@
    "15m" :> <<"15m", "5d">> @@
    "1h" :> <<"1h", "1mo">> @@
    "4h" :> <<"1h", "3mo">> @@
    "1d" :> <<"1d", "1y">> @@
    "2d" :> <<"1d", "2y">> @@
    "3d" :> <<"1d", "2y">> @@
    "1w" :> <<"1wk", "2y">> @@
    "2w" :> <<"1wk", "5y">> @@
    "3w" :> <<"1wk", "5y">> @@
    "1M" :> <<"1mo", "5y">> @@
    "2M" :> <<"1mo", "10y">> @@
    "3M" :> <<"1mo", "10y">> @@
    "6M" :> <<"1mo", "max">> @@
    "1Y" :> <<"1mo", "max">>

\* get_timeframe_period with the pair the wrong way round
get_timeframe_period_swapped(timeframe) ==
    IF timeframe \in DOMAIN interval_map
    THEN <<interval_map[timeframe][2], interval_map[timeframe][1]>>
    ELSE <<"1y", "1d">>

\* <<interval, period>>
get_timeframe_period(timeframe) ==
    IF timeframe \in DOMAIN interval_map
    THEN interval_map[timeframe]
    ELSE <<"1d", "1y">>

-----------------------------------------------------------------------------
(* The market-data provider (yfinance), as the handlers use it *)

\* symbols the provider has price history for; any other symbol has none
LISTED ==
    { <<"A", "A", "P", "L">>,
      <<"T", "C", "S", ".", "N", "S">>,
      <<"S", "P", "Y">> }

\* one row of the provider's frame: a native timestamp in seconds (one bar a
\* minute) and OHLCV
Row(k, prev, close) ==
    [Index |-> k * 60, Open |-> prev, High |-> Max(prev, close),
     Low |-> Min(prev, close), Close |-> close, Volume |-> 1000]

\* yf.Ticker(symbol).history(period=..., interval=...): period '2d' is the two
\* most recent bars, the chart lookbacks cover all the provider holds
History(market, symbol, period) ==
    IF symbol \notin LISTED THEN <<>>
    ELSE IF period = "2d" THEN Slice(market, Len(market) - 2, Len(market))
    ELSE market

\* yf.Ticker(symbol).info
Info(symbol, named) ==
    IF named THEN [longName |-> <<"Name of", symbol>>] ELSE [shortName |-> symbol]

\* the provider's frame for a series of closes
RECURSIVE Frame(_, _)
Frame(closes, acc) ==
    IF Len(acc) = Len(closes) THEN acc
    ELSE LET k == Len(acc) + 1
             prev == IF k = 1 THEN closes[1] ELSE closes[k - 1]
         IN  Frame(closes, Append(acc, Row(k, prev, closes[k])))

\* a market that has already moved both ways: one gain, then one larger loss
SeedCloses == <<100, 100, 100, 100, 110, 110, 110, 110, 90, 90, 90, 90, 90>>
SeedMarket == Frame(SeedCloses, <<>>)

\* number of bars that close away from the previous close
Moves(market) ==
    Cardinality({k \in 2..Len(market) : market[k].Close # market[k - 1].Close})

\* the moves of a market since the chart specification started
NewMoves(market) ==
    IF Len(market) >= Len(SeedMarket) /\ SubSeq(market, 1, Len(SeedMarket)) = SeedMarket
    THEN Moves(market) - Moves(SeedMarket)
    ELSE Moves(market)

-----------------------------------------------------------------------------
(* ChartAssembler *)

\* Optional[Dict]: None is <<>>, a dict d is <<d>>
None == <<>>
Some(d) == <<d>>
Truthy(data) == data # None

\* try_except with the try block opened after the .info lookup
try_except_late(fault, result) == IF fault = "history" THEN None ELSE result

\* try: ... except Exception: return None -- a fault is an exception raised by
\* the provider call of that name ("none": no call raises)
try_except(fault, result) == IF fault # "none" THEN None ELSE result

\* empty without the test
empty_unchecked(rows) == FALSE

\* hist.empty
empty(rows) == rows = <<>>

\* rsi_point stamped in seconds
rsi_point_seconds(candle, value, ma, upper, lower) ==
    [timestamp |-> candle.timestamp \div 1000, value |-> value, ma |-> ma,
     upperBB |-> upper, lowerBB |-> lower]

\* one entry of rsi_data
rsi_point(candle, value, ma, upper, lower) ==
    [timestamp |-> candle.timestamp, value |-> value, ma |-> ma,
     upperBB |-> upper, lowerBB |-> lower]

fetch_chart_data(symbol, timeframe, fault, market) ==
    LET formatted_symbol == format_symbol_for_yahoo(symbol)
        tp == get_timeframe_period(timeframe)
        interval == tp[1]
        period == tp[2]
        rows == History(market, formatted_symbol, period)
    IN  try_except(fault,
          IF empty(rows) THEN None
          ELSE
          LET candles == List([k \in 1..Len(rows) |->
                            [timestamp |-> rows[k].Index * 1000,
                             open |-> Float(rows[k].Open),
                             high |-> Float(rows[k].High),
                             low |-> Float(rows[k].Low),
                             close |-> Float(rows[k].Close),
                             volume |-> rows[k].Volume]])
              close_prices == List([k \in 1..Len(candles) |-> candles[k].close])
              rsi_values == calculate_rsi(close_prices, RSI_PERIOD)
              rsi_ma == calculate_sma(rsi_values, RSI_MA_PERIOD)
              bb == calculate_bollinger_bands(rsi_values, BB_PERIOD, BB_MULTIPLIER)
              rsi_data == List([k \in 1..Len(candles) |->
                             rsi_point(candles[k], rsi_values[k], rsi_ma[k],
                                       bb[1][k], bb[2][k])])
          IN  Some([candles |-> candles, rsi |-> rsi_data]))

-----------------------------------------------------------------------------
(* State: the provider's bars (hist), the client session, and the request  *)
(* being served with its response                                          *)

NoRequest == [route |-> "none"]
NoResponse == [status |-> 0]

Init ==
    /\ hist = <<>>
    /\ session = <<>>
    /\ request = NoRequest
    /\ response = NoResponse
    /\ calls = <<>>

\* the chart specification starts with a new symbol or with one already traded
InitChart ==
    /\ hist \in {<<>>, SeedMarket}
    /\ session = <<>>
    /\ request = NoRequest
    /\ response = NoResponse
    /\ calls = <<>>

Idle == request = NoRequest

\* the response leaves; nothing of the request is kept
Respond ==
    /\ ~Idle
    /\ request' = NoRequest
    /\ response' = NoResponse
    /\ UNCHANGED <<hist, session, calls>>

ChartStartCloses == {100}
ChartDeltas == {-20, 0, 10}
ChartSymbols == { <<"A", "A", "P", "L">>, <<"Q", "Q", "Q">> }
ChartTimeframes == {"1h", "bogus"}
ChartFaults == {"none", "history"}

\* the market moves on: the provider holds one more bar
TickChart ==
    /\ Idle
    /\ Len(hist) < MaxBars
    /\ \E close \in (IF hist = <<>> THEN ChartStartCloses
                     ELSE {hist[Len(hist)].Close + d : d \in ChartDeltas}) :
         LET prev == IF hist = <<>> THEN close ELSE hist[Len(hist)].Close
             next == Append(hist, Row(Len(hist) + 1, prev, close))
         IN  /\ close >= 0
             /\ NewMoves(next) <= MaxMoves
             /\ hist' = next
    /\ UNCHANGED <<session, request, response, calls>>

\* GET /api/chart/<symbol>/<timeframe>
get_chart_data(symbol, timeframe, fault) ==
    /\ Idle
    /\ LET data == fetch_chart_data(symbol, timeframe, fault, hist)
       IN  /\ request' = [route |-> "chart", symbol |-> symbol, timeframe |-> timeframe,
                          fault |-> fault,
                          bars |-> History(hist, format_symbol_for_yahoo(symbol),
                                           get_timeframe_period(timeframe)[2])]
           /\ response' = IF Truthy(data)
                          THEN [status |-> 200, body |-> data[1]]
                          ELSE [status |-> 404, body |-> [error |-> "Chart data not found"]]
    /\ UNCHANGED <<hist, session, calls>>

GetChartData ==
    \E symbol \in ChartSymbols, timeframe \in ChartTimeframes, fault \in ChartFaults :
        get_chart_data(symbol, timeframe, fault)

NextChart == TickChart \/ GetChartData \/ Respond

SpecChart == InitChart /\ [][NextChart]_vars

-----------------------------------------------------------------------------
(* QuoteAssembler *)

\* info.get('longName', symbol)
long_name(info, symbol) ==
    IF "longName" \in DOMAIN info THEN info.longName ELSE symbol

\* hist['Close'].iloc[-2] if len(hist) > 1 else current_price
previous_close_of(rows, current_price) ==
    IF Len(rows) > 1 THEN Float(rows[Len(rows) - 1].Close) ELSE current_price

fetch_symbol_data(symbol, fault, named, market) ==
    LET formatted_symbol == format_symbol_for_yahoo(symbol)
        info == Info(formatted_symbol, named)
        rows == History(market, formatted_symbol, "2d")
    IN  try_except(fault,
          IF empty(rows) THEN None
          ELSE
          LET current_price == Float(rows[Len(rows)].Close)
              previous_close == previous_close_of(rows, current_price)
              change == FSub(current_price, previous_close)
              change_percent == FMul(FDiv(change, previous_close), Float(100))
          IN  Some([symbol |-> Upper(symbol),
                    name |-> long_name(info, symbol),
                    price |-> current_price,
                    change |-> change,
                    changePercent |-> change_percent]))

-----------------------------------------------------------------------------
(* The web layer of the quote and watchlist routes *)

ApiCloses == {0, 100, 110}
ApiSymbols == { <<"A", "A", "P", "L">>, <<"Q", "Q", "Q">>, <<"T", "C", "S">> }
WatchSymbols == { <<"A", "A", "P", "L">>, <<"Q", "Q", "Q">> }
WatchIds == {"w1", "w2"}
\* what the provider does during one fetch_symbol_data: "info" and "history" name
\* the call that raises; "unnamed" answers with metadata that has no longName
ApiOutcomes == {"none", "unnamed", "info", "history"}

FaultOf(outcome) == IF outcome = "unnamed" THEN "none" ELSE outcome

\* the market moves on: the provider holds one more daily bar
TickApi ==
    /\ Idle
    /\ Len(hist) < MaxApiBars
    /\ \E close \in ApiCloses :
         LET prev == IF hist = <<>> THEN close ELSE hist[Len(hist)].Close
         IN  hist' = Append(hist, Row(Len(hist) + 1, prev, close))
    /\ UNCHANGED <<session, request, response, calls>>

\* what the provider did for one symbol of a request: the fault it raised, or
\* the bars it returned
ProviderCall(symbol, outcome, market) ==
    [symbol |-> symbol, fault |-> FaultOf(outcome),
     bars |-> History(market, format_symbol_for_yahoo(symbol), "2d")]

\* GET /api/symbol/<symbol>
get_symbol_data(symbol, outcome) ==
    /\ Idle
    /\ LET data == fetch_symbol_data(symbol, FaultOf(outcome), outcome = "none", hist)
       IN  /\ request' = [route |-> "symbol", symbol |-> symbol,
                          fault |-> FaultOf(outcome),
                          bars |-> ProviderCall(symbol, outcome, hist).bars]
           /\ response' = IF Truthy(data)
                          THEN [status |-> 200, body |-> data[1]]
                          ELSE [status |-> 404, body |-> [error |-> "Symbol not found"]]
    /\ UNCHANGED <<hist, session, calls>>

GetSymbolData ==
    \E symbol \in ApiSymbols, outcome \in ApiOutcomes : get_symbol_data(symbol, outcome)

\* POST /api/watchlists
save_watchlists(watchlists) ==
    /\ Idle
    /\ session' = watchlists
    /\ request' = [route |-> "save_watchlists", json |-> watchlists]
    /\ response' = [status |-> 200, body |-> [success |-> TRUE]]
    /\ UNCHANGED <<hist, calls>>

\* the watchlists a client posts: none, or one watchlist "w1"
PostedWatchlists ==
    {<<>>} \cup
    { <<[id |-> "w1", symbols |-> symbols]>> :
        symbols \in UNION {[1..n -> WatchSymbols] : n \in 0..MaxWatch} }

SaveWatchlists == \E watchlists \in PostedWatchlists : save_watchlists(watchlists)

\* next((w for w in watchlists if w['id'] == watchlist_id), None)
find_watchlist(watchlists, watchlist_id) ==
    LET hits == SelectSeq(watchlists, LAMBDA w : w.id = watchlist_id)
    IN  IF hits = <<>> THEN None ELSE Some(hits[1])

\* symbol_data_loop leaving the loop at the first symbol without data
RECURSIVE symbol_data_loop_break(_, _, _, _, _)
symbol_data_loop_break(symbols, outcomes, market, k, symbol_data) ==
    IF k > Len(symbols) THEN symbol_data
    ELSE LET data == fetch_symbol_data(symbols[k], FaultOf(outcomes[k]),
                                       outcomes[k] = "none", market)
         IN  IF Truthy(data)
             THEN symbol_data_loop_break(symbols, outcomes, market, k + 1,
                                         Append(symbol_data, data[1]))
             ELSE symbol_data

\* for symbol in watchlist['symbols']: data = fetch_symbol_data(symbol); if data: append
RECURSIVE symbol_data_loop(_, _, _, _, _)
symbol_data_loop(symbols, outcomes, market, k, symbol_data) ==
    IF k > Len(symbols) THEN symbol_data
    ELSE LET data == fetch_symbol_data(symbols[k], FaultOf(outcomes[k]),
                                       outcomes[k] = "none", market)
         IN  symbol_data_loop(symbols, outcomes, market, k + 1,
                              IF Truthy(data) THEN Append(symbol_data, data[1])
                              ELSE symbol_data)

\* GET /api/watchlist/<watchlist_id>/data; outcomes[k] is what the provider does
\* during the fetch of the k-th symbol
get_watchlist_data(watchlist_id, outcomes) ==
    /\ Idle
    /\ LET watchlist == find_watchlist(session, watchlist_id)
       IN  IF ~Truthy(watchlist)
           THEN /\ outcomes = <<>>
                /\ request' = [route |-> "watchlist_data", id |-> watchlist_id,
                               fetches |-> <<>>]
                /\ response' = [status |-> 404, body |-> [error |-> "Watchlist not found"]]
           ELSE /\ Len(outcomes) = Len(watchlist[1].symbols)
                /\ request' = [route |-> "watchlist_data", id |-> watchlist_id,
                               fetches |-> List([k \in 1..Len(outcomes) |->
                                   ProviderCall(watchlist[1].symbols[k], outcomes[k], hist)])]
                /\ response' =
                     [status |-> 200,
                      body |-> [watchlist |-> watchlist[1],
                                symbolData |-> symbol_data_loop(watchlist[1].symbols,
                                                                outcomes, hist, 1, <<>>)]]
    /\ UNCHANGED <<hist, session, calls>>

GetWatchlistData ==
    \E watchlist_id \in WatchIds :
      \E outcomes \in UNION {[1..n -> ApiOutcomes] : n \in 0..MaxWatch} :
        get_watchlist_data(watchlist_id, outcomes)

NextApi ==
    TickApi \/ GetSymbolData \/ GetChartData \/ SaveWatchlists \/ GetWatchlistData \/ Respond

SpecApi == Init /\ [][NextApi]_vars

-----------------------------------------------------------------------------
(* The normaliser and the resolver on their own: calls logs each application *)
(* as [fn, arg, result]                                                      *)

OtherSymbols ==
    { <<"T", "C", "S">>,
      <<"t", "c", "s">>,
      <<"a", "a", "p", "l">>,
      <<"S", "p", "y">>,
      <<"R", "E", "L", "I", "A", "N", "C", "E", ".", "B", "O">>,
      <<"B", "R", "K", ".", "B">>,
      <<"V", "O", "D", ".", "L">>,
      <<"t", "c", "s", ".", "n", "s">>,
      <<"A", "B", "C", "D", "E", "F", "G", "H", "I", "J">>,
      <<"A", "B", "C", "D", "E", "F", "G", "H", "I", "J", "K">>,
      <<"H", "I", "N", "D", "U", "N", "I", "L", "V", "R">>,
      <<"B", "H", "A", "R", "T", "I", "A", "R", "T", "L">>,
      <<"K", "O", "T", "A", "K", "B", "A", "N", "K", "L", "T", "D">>,
      <<"A", ".", "N", "S", "E">>,
      <<"X", ".", "B", "O", "M">> }

SymAlphabet == {"A", "a", ".", "N", "S"}

PopularSet ==
    {popular_symbols.US[k] : k \in 1..Len(popular_symbols.US)} \cup
    {popular_symbols.INDIAN[k] : k \in 1..Len(popular_symbols.INDIAN)}

\* the symbols put to the normaliser
NormalizeInputs ==
    PopularSet \cup OtherSymbols \cup
    UNION {[1..n -> SymAlphabet] : n \in 0..MaxSymLen}

\* normalise a raw symbol
Normalize ==
    /\ calls = <<>>
    /\ \E symbol \in NormalizeInputs :
         calls' = <<[fn |-> "format_symbol_for_yahoo", arg |-> symbol,
                     result |-> format_symbol_for_yahoo(symbol)]>>
    /\ UNCHANGED <<hist, session, request, response>>

\* normalise the result of the last normalisation
NormalizeAgain ==
    /\ Len(calls) = 1
    /\ calls' = Append(calls, [fn |-> "format_symbol_for_yahoo", arg |-> calls[1].result,
                               result |-> format_symbol_for_yahoo(calls[1].result)])
    /\ UNCHANGED <<hist, session, request, response>>

NextNormalize == Normalize \/ NormalizeAgain

SpecNormalize == Init /\ [][NextNormalize]_vars

TimeframeTokens == DOMAIN interval_map \cup {"bogus-token", "", "1D", "30m"}

\* resolve one more timeframe token
Resolve ==
    /\ Len(calls) < MaxResolves
    /\ \E timeframe \in TimeframeTokens :
         calls' = Append(calls, [fn |-> "get_timeframe_period", arg |-> timeframe,
                                 result |-> get_timeframe_period(timeframe)])
    /\ UNCHANGED <<hist, session, request, response>>

NextResolve == Resolve

SpecResolve == Init /\ [][NextResolve]_vars

-----------------------------------------------------------------------------
(* Properties *)

ChartServed == request.route = "chart" /\ response.status = 200
QuoteServed == request.route = "symbol" /\ response.status = 200
InRange(v) == FLe(Float(0), v) /\ FLe(v, Float(100))
ConstantCloses(bars) == \A k \in 1..Len(bars) : bars[k].Close = bars[1].Close

\* C1: when the provider returns zero bars for a chart request, the answer is
\* 404 {"error": "Chart data not found"}, and no chart payload that is served
\* has an empty candles sequence.
C1_ZeroBarsNotFound ==
    /\ (request.route = "chart" /\ request.fault = "none" /\ request.bars = <<>>)
         => /\ response.status = 404
            /\ response.body = [error |-> "Chart data not found"]
    /\ ChartServed => response.body.candles # <<>>

C1_Witness ==
    /\ request.route = "chart" /\ request.fault = "none" /\ request.bars = <<>>
    /\ request.symbol = <<"A", "A", "P", "L">>
    /\ response.status = 404

\* C2: when a provider call raises inside fetch_symbol_data or fetch_chart_data,
\* the route answers 404 with a JSON error body and nothing else.
C2_ProviderErrorIsNotFound ==
    (request.route \in {"symbol", "chart"} /\ request.fault # "none")
      => /\ response.status = 404
         /\ response.body = [error |-> IF request.route = "symbol"
                                       THEN "Symbol not found"
                                       ELSE "Chart data not found"]

C2_Witness ==
    /\ request.route = "symbol" /\ request.fault = "info"
    /\ request.symbol = <<"A", "A", "P", "L">>
    /\ hist # <<>>
    /\ response.status = 404

\* C3: a served chart payload has as many rsi points as candles, rsi[i] carries
\* the timestamp of candles[i], and the candles are the provider's bars in the
\* provider's order.
C3_RsiAlignedWithCandles ==
    ChartServed =>
      LET candles == response.body.candles
          rsi == response.body.rsi
          bars == request.bars
      IN  /\ Len(rsi) = Len(candles)
          /\ \A i \in 1..Len(candles) : rsi[i].timestamp = candles[i].timestamp
          /\ Len(candles) = Len(bars)
          /\ \A i \in 1..Len(bars) :
               /\ candles[i].timestamp = bars[i].Index * 1000
               /\ candles[i].close = Float(bars[i].Close)

C3_Witness ==
    /\ ChartServed
    /\ Len(response.body.candles) > BB_PERIOD
    /\ ~ConstantCloses(request.bars)

\* C4: calculate_rsi with period 14 returns as many values as it is given prices,
\* each within [0, 100]: for the provider's current series, whatever its length,
\* and in every chart payload served.
C4_RsiLengthAndRange ==
    /\ LET prices == List([k \in 1..Len(hist) |-> Float(hist[k].Close)])
           out == calculate_rsi(prices, RSI_PERIOD)
       IN  /\ Len(out) = Len(prices)
           /\ \A k \in 1..Len(out) : InRange(out[k])
    /\ ChartServed =>
         /\ Len(response.body.rsi) = Len(request.bars)
         /\ \A k \in 1..Len(response.body.rsi) : InRange(response.body.rsi[k].value)

C4_Witness ==
    /\ ChartServed
    /\ \E k \in 1..Len(response.body.rsi) :
         response.body.rsi[k].value \notin {Float(0), Float(50), Float(100)}

\* C5: for a constant close series of at least 15 bars the RSI is 50 at every
\* index below 14 and exactly 100 from index 14 on.
C5_ConstantSeriesRsi ==
    (ChartServed /\ Len(request.bars) >= RSI_PERIOD + 1 /\ ConstantCloses(request.bars))
      => \A k \in 1..Len(response.body.rsi) :
           response.body.rsi[k].value =
             IF k - 1 < RSI_PERIOD THEN Float(50) ELSE Float(100)

C5_Witness ==
    /\ ChartServed
    /\ Len(request.bars) = RSI_PERIOD + 1
    /\ ConstantCloses(request.bars)
    /\ response.body.rsi[RSI_PERIOD + 1].value = Float(100)

\* C6: normalising the result of a normalisation returns it unchanged.
C6_NormalizeIdempotent ==
    Len(calls) = 2 => calls[2].result = calls[1].result

C6_Witness ==
    /\ Len(calls) = 2
    /\ calls[1].result = calls[1].arg \o <<".", "N", "S">>
    /\ calls[2].arg = calls[1].result

\* C7: every symbol of the popular-symbol table normalises to itself.
C7_PopularSymbolsUnchanged ==
    \A k \in 1..Len(calls) :
      calls[k].arg \in PopularSet => calls[k].result = calls[k].arg

\* C8 as stated: "2d" and "3d" resolve to the interval "1d" with different
\* lookback periods.
C8_TwoAndThreeDayLookbacksDiffer ==
    \A i, j \in 1..Len(calls) :
      (calls[i].arg = "2d" /\ calls[j].arg = "3d")
        => /\ calls[i].result[1] = "1d"
           /\ calls[j].result[1] = "1d"
           /\ calls[i].result[2] # calls[j].result[2]

\* C8 amended: "2d" and "3d" resolve to the same pair ("1d", "2y"); the tokens
\* "1d" and "2d" share the interval "1d" and differ in lookback ("1y", "2y").
C8_TwoAndThreeDayCollapse ==
    \A i, j \in 1..Len(calls) :
      /\ (calls[i].arg = "2d" /\ calls[j].arg = "3d")
           => /\ calls[i].result = <<"1d", "2y">>
              /\ calls[j].result = <<"1d", "2y">>
      /\ (calls[i].arg = "1d" /\ calls[j].arg = "2d")
           => /\ calls[i].result[1] = "1d"
              /\ calls[j].result[1] = "1d"
              /\ calls[i].result[2] # calls[j].result[2]

C8_Witness ==
    /\ Len(calls) = 2
    /\ calls[1].arg = "2d"
    /\ calls[2].arg = "3d"

\* C9: a served quote has price = last close, change = price - previous and
\* changePercent = change / previous * 100, previous being the close before the
\* last when there are two bars and the last close otherwise; a single-bar
\* quote has change = 0 and changePercent = 0 whatever its close.
C9_QuoteArithmetic ==
    QuoteServed =>
      LET bars == request.bars
          n == Len(bars)
          last == bars[n].Close
          previous == IF n >= 2 THEN bars[n - 1].Close ELSE last
          quote == response.body
      IN  /\ quote.price = Float(last)
          /\ quote.change = Float(last - previous)
          /\ previous # 0 => quote.changePercent = Rat((last - previous) * 100, previous)
          /\ n = 1 => (quote.change = Float(0) /\ quote.changePercent = Float(0))

\* C10: for a watchlist found in the session the route answers 200, fetches every
\* symbol of the watchlist, and symbolData holds one quote for each symbol whose
\* fetch returned data, in watchlist order, and nothing for the others.
C10_WatchlistSkipsFailures ==
    (request.route = "watchlist_data" /\ Truthy(find_watchlist(session, request.id)))
      => LET symbols == find_watchlist(session, request.id)[1].symbols
             fetched(c) == c.fault = "none" /\ c.bars # <<>>
             good == SelectSeq(request.fetches, fetched)
             data == response.body.symbolData
         IN  /\ response.status = 200
             /\ Len(request.fetches) = Len(symbols)
             /\ \A k \in 1..Len(symbols) : request.fetches[k].symbol = symbols[k]
             /\ Len(data) = Len(good)
             /\ \A k \in 1..Len(good) :
                  /\ data[k].symbol = Upper(good[k].symbol)
                  /\ data[k].price = Float(good[k].bars[Len(good[k].bars)].Close)

C10_Witness ==
    /\ request.route = "watchlist_data"
    /\ response.status = 200
    /\ Len(request.fetches) = 2
    /\ request.fetches[1].fault # "none"
    /\ request.fetches[2].fault = "none"
    /\ Len(response.body.symbolData) = 1

====
